---- MODULE Spec2Model ----
(***************************************************************************)
(* Model of main.py, the sample-data generator: the CSV sink, the          *)
(* reference-data, customer, catalog and order generators, and main.       *)
(*                                                                         *)
(* The program is single-threaded.  Its only inputs are the contents of    *)
(* the output directory before the run and the process-wide pseudo-random  *)
(* stream that Faker draws from.  The stream is a quadratic congruential   *)
(* sequence over 0..SeedMax fixed by the variable seed and read at         *)
(* position pos (see Stream); Init ranges over every seed, so a draw from  *)
(* a range of at most SeedMax + 1 values takes every value of the range;   *)
(* a draw from a wider range (the placement window) takes its first        *)
(* SeedMax + 1 values.                                                     *)
(* A timestamp is a whole number of time units since 2025-01-01 00:00,     *)
(* UnitsPerDay units to the day.  A price is a whole number of cents.      *)
(* A file is the rows handed to the sink with the field names of the       *)
(* first row; the textual CSV encoding is not modelled.                    *)
(***************************************************************************)
EXTENDS Integers, Sequences, FiniteSets, TLC

VARIABLES pc, seed, pos, dir_exists, files, pre, m, call

vars == <<pc, seed, pos, dir_exists, files, pre, m, call>>

\* ---------------------------------------------------------------- bounds
SeedMax == 11
StrideMax == 5
MaxCount == 2
UnitsPerDay == 2
NumCities == 2
NumCountries == 2

Seeds == [start : 0..SeedMax, stride : 0..StrideMax]

\* ------------------------------------------------------- the random source
\* The p-th value of the stream the seed stands for.
Stream(p) ==
  (seed.start + seed.stride * p + (p * (p + 1)) \div 2) % (SeedMax + 1)

\* random.randrange on an empty range raises ValueError before it draws.
random_int(p, min, max) ==
  IF max < min
    THEN [raised |-> TRUE, value |-> min, pos |-> p]
    ELSE [raised |-> FALSE,
          value |-> min + (Stream(p) % (max - min + 1)),
          pos |-> p + 1]

\* Python evaluates the calls of a statement left to right; the first one
\* that raises ends the evaluation, the draws before it are consumed.
RECURSIVE Draws(_, _)
Draws(p, ranges) ==
  IF ranges = <<>>
    THEN [raised |-> FALSE, values |-> <<>>, pos |-> p]
    ELSE LET r == random_int(p, Head(ranges)[1], Head(ranges)[2])
         IN IF r.raised
              THEN [raised |-> TRUE, values |-> <<>>, pos |-> r.pos]
              ELSE LET rest == Draws(r.pos, Tail(ranges))
                   IN [raised |-> rest.raised,
                       values |-> <<r.value>> \o rest.values,
                       pos |-> rest.pos]

faker_city(p) == random_int(p, 1, NumCities).value
faker_country(p) == random_int(p, 1, NumCountries).value

\* ------------------------------------------------------------ the CSV sink
EmptyDir == [f \in {} |-> <<>>]

write_to_csv(fs, file_name, rows) ==
  IF Len(rows) = 0
    THEN fs
    ELSE [f \in (DOMAIN fs) \cup {file_name} |->
            IF f = file_name
              THEN [field_names |-> DOMAIN rows[1], rows |-> rows]
              ELSE fs[f]]

write_list_to_csv(fs, file_name, field_name, values) ==
  write_to_csv(fs, file_name,
    [i \in 1..Len(values) |-> [x \in {"id", field_name} |->
                                 IF x = "id" THEN i ELSE values[i]]])

\* --------------------------------------------------------- reference data
methods == <<"Standard", "Next Business Day", "Saturday AM", "Saturday PM">>

couriers == <<"Cheap & Cheerful Delivery", "Speedy Parcel Delivery",
              "Local Delivery Partners">>

generate_shipping_methods(fs) ==
  [fs |-> write_list_to_csv(fs, "shipping_method.csv", "name", methods),
   result |-> Len(methods)]

generate_couriers(fs) ==
  [fs |-> write_list_to_csv(fs, "courier.csv", "name", couriers),
   result |-> Len(couriers)]

\* --------------------------------------------------------------- customers
None == "None"

generate_customers(fs, p, number_of_customers) ==
  LET customers == [i \in 1..number_of_customers |->
                      [id |-> i,
                       city |-> faker_city(p + 2 * (i - 1)),
                       country |-> faker_country(p + 2 * (i - 1) + 1)]]
      n == IF number_of_customers > 0 THEN number_of_customers ELSE 0
  IN [fs |-> write_to_csv(fs, "customer.csv", customers),
      pos |-> p + 2 * n,
      result |-> None]

\* ----------------------------------------------------------------- catalog
Product(name, price) == [name |-> name, price |-> price]

get_product_hierarchy ==
  << [name |-> "Home & Garden", sub_category |->
        << [name |-> "Garden Furniture", product_set |->
              << Product("Table and chair set", 29999),
                 Product("Patio Heater", 19999) >>],
           [name |-> "Home Furnishing", product_set |->
              << Product("Curtains", 8999),
                 Product("Cushions", 1999) >>] >>],
     [name |-> "Electronics", sub_category |->
        << [name |-> "TV", product_set |->
              << Product("50 inch 4K TV", 39999),
                 Product("TV Soundbar", 9999) >>],
           [name |-> "Audio", product_set |->
              << Product("Portable Bluetooth Speaker", 4999),
                 Product("Premium Smart Speaker", 39999) >>] >>],
     [name |-> "Clothing", sub_category |->
        << [name |-> "Menswear", product_set |->
              << Product("Mens Jeans", 3999),
                 Product("Mens Shorts", 1999) >>],
           [name |-> "Womenswear", product_set |->
              << Product("Womens Jeans", 3999),
                 Product("Blouse", 2499) >>] >>] >>

CategoryRow(category_id, category_name) ==
  [id |-> category_id, name |-> category_name]

SubCategoryRow_swapped(sub_category_id, category_id, sub_category_name) ==
  [id |-> sub_category_id, category_id |-> sub_category_id,
   name |-> sub_category_name]

SubCategoryRow(sub_category_id, category_id, sub_category_name) ==
  [id |-> sub_category_id, category_id |-> category_id,
   name |-> sub_category_name]

ProductRow(product_id, sub_category_id, product) ==
  [id |-> product_id, sub_category_id |-> sub_category_id,
   name |-> product.name, price |-> product.price]

RECURSIVE ProductLoop(_, _, _)
ProductLoop(product_set, k, st) ==
  IF k > Len(product_set)
    THEN st
    ELSE ProductLoop(product_set, k + 1,
           [st EXCEPT
              !.products = Append(@, ProductRow(st.product_id,
                                                st.sub_category_id,
                                                product_set[k])),
              !.product_id = @ + 1])

RECURSIVE SubCategoryLoop(_, _, _)
SubCategoryLoop(sub_category, j, st) ==
  IF j > Len(sub_category)
    THEN st
    ELSE LET s1 == [st EXCEPT
                      !.sub_categories =
                         Append(@, SubCategoryRow(st.sub_category_id,
                                                  st.category_id,
                                                  sub_category[j].name))]
             s2 == ProductLoop(sub_category[j].product_set, 1, s1)
         IN SubCategoryLoop(sub_category, j + 1,
                            [s2 EXCEPT !.sub_category_id = @ + 1])

RECURSIVE CategoryLoop(_, _, _)
CategoryLoop(product_hierarchy, i, st) ==
  IF i > Len(product_hierarchy)
    THEN st
    ELSE LET s1 == [st EXCEPT
                      !.categories =
                         Append(@, CategoryRow(st.category_id,
                                               product_hierarchy[i].name))]
             s2 == SubCategoryLoop(product_hierarchy[i].sub_category, 1, s1)
         IN CategoryLoop(product_hierarchy, i + 1,
                         [s2 EXCEPT !.category_id = @ + 1])

generate_products(fs) ==
  LET st == CategoryLoop(get_product_hierarchy, 1,
              [category_id |-> 1, sub_category_id |-> 1, product_id |-> 1,
               categories |-> <<>>, sub_categories |-> <<>>,
               products |-> <<>>])
      fs1 == write_to_csv(fs, "category.csv", st.categories)
      fs2 == write_to_csv(fs1, "sub_category.csv", st.sub_categories)
      fs3 == write_to_csv(fs2, "product.csv", st.products)
  IN [fs |-> fs3, result |-> Len(st.products)]

\* ------------------------------------------------------------------ orders
DaysInWindow == 365
default_num_orders == 100
default_max_order_items == 3
default_start_datetime == 0
default_end_datetime == default_start_datetime + DaysInWindow * UnitsPerDay
default_max_quantity == 3

timedelta(days) == days * UnitsPerDay

DayOffsetRange_from_zero == <<0, 4>>

DayOffsetRange == <<1, 4>>

ShippedTimestamp(placed_timestamp, days) == placed_timestamp + timedelta(days)

\* The ranges sampled for one order row, in evaluation order:
\* placed_timestamp, the day offset, customer_id, shipping_method_id,
\* courier_id.
OrderRanges_from_zero(a) ==
  << <<a.start_datetime, a.end_datetime>>,
     DayOffsetRange,
     <<0, a.num_customers>>,
     <<0, a.num_shipping_methods>>,
     <<0, a.num_couriers>> >>

OrderRanges(a) ==
  << <<a.start_datetime, a.end_datetime>>,
     DayOffsetRange,
     <<1, a.num_customers>>,
     <<1, a.num_shipping_methods>>,
     <<1, a.num_couriers>> >>

ItemCountRange_from_zero(a) == <<0, a.max_order_items>>

ItemCountRange(a) == <<1, a.max_order_items>>

\* The ranges sampled for one order item: product_id, quantity.
ItemRanges(a) == << <<1, a.num_products>>, <<1, a.max_quantity>> >>

\* The loop state of generate_orders: whether an exception is propagating,
\* the stream position, the next order-item id and the two lists.
LoopState(raised, p, order_item_id, orders, order_items) ==
  [raised |-> raised, pos |-> p, order_item_id |-> order_item_id,
   orders |-> orders, order_items |-> order_items]

RECURSIVE ItemLoop_per_order_id(_, _, _, _, _)
ItemLoop_per_order_id(a, order_id, j, n, st) ==
  IF j >= n \/ st.raised
    THEN st
    ELSE LET d == Draws(st.pos, ItemRanges(a))
         IN IF d.raised
              THEN LoopState(TRUE, d.pos, st.order_item_id, st.orders,
                             st.order_items)
              ELSE ItemLoop_per_order_id(a, order_id, j + 1, n,
                     LoopState(FALSE, d.pos, st.order_item_id + 1, st.orders,
                       Append(st.order_items,
                              [id |-> j + 1,
                               order_id |-> order_id,
                               product_id |-> d.values[1],
                               quantity |-> d.values[2]])))

RECURSIVE ItemLoop(_, _, _, _, _)
ItemLoop(a, order_id, j, n, st) ==
  IF j >= n \/ st.raised
    THEN st
    ELSE LET d == Draws(st.pos, ItemRanges(a))
         IN IF d.raised
              THEN LoopState(TRUE, d.pos, st.order_item_id, st.orders,
                             st.order_items)
              ELSE ItemLoop(a, order_id, j + 1, n,
                     LoopState(FALSE, d.pos, st.order_item_id + 1, st.orders,
                       Append(st.order_items,
                              [id |-> st.order_item_id,
                               order_id |-> order_id,
                               product_id |-> d.values[1],
                               quantity |-> d.values[2]])))

\* One iteration of the loop over orders; a propagating exception skips it.
OrderBody(a, i, st) ==
  IF st.raised
    THEN st
    ELSE LET order_id == i + 1
             d == Draws(st.pos, OrderRanges(a))
         IN IF d.raised
              THEN LoopState(TRUE, d.pos, st.order_item_id, st.orders,
                             st.order_items)
              ELSE LET placed_timestamp == d.values[1]
                       shipped_timestamp ==
                          ShippedTimestamp(placed_timestamp, d.values[2])
                       orders ==
                          Append(st.orders,
                            [id |-> order_id,
                             customer_id |-> d.values[3],
                             shipping_method_id |-> d.values[4],
                             courier_id |-> d.values[5],
                             placed_timestamp |-> placed_timestamp,
                             shipped_timestamp |-> shipped_timestamp])
                       c == random_int(d.pos, ItemCountRange(a)[1],
                                       ItemCountRange(a)[2])
                   IN IF c.raised
                        THEN LoopState(TRUE, c.pos, st.order_item_id, orders,
                                       st.order_items)
                        ELSE ItemLoop(a, order_id, 0, c.value,
                               LoopState(FALSE, c.pos, st.order_item_id,
                                         orders, st.order_items))

\* for i in range(lo, hi): the iterations run in increasing i; the range is
\* split in halves only to keep the depth of the evaluation logarithmic.
RECURSIVE OrderLoop(_, _, _, _)
OrderLoop(a, lo, hi, st) ==
  IF lo >= hi
    THEN st
    ELSE IF hi = lo + 1
      THEN OrderBody(a, lo, st)
      ELSE LET mid == (lo + hi) \div 2
               left == OrderLoop(a, lo, mid, st)
           IN IF left.raised THEN left ELSE OrderLoop(a, mid, hi, left)

\* An exception leaves generate_orders before either table is written.
generate_orders(fs, p, a) ==
  LET st == OrderLoop(a, 0, a.num_orders, LoopState(FALSE, p, 1, <<>>, <<>>))
  IN IF st.raised
       THEN [raised |-> TRUE, pos |-> st.pos, fs |-> fs]
       ELSE [raised |-> FALSE, pos |-> st.pos,
             fs |-> write_to_csv(write_to_csv(fs, "order.csv", st.orders),
                                 "order_item.csv", st.order_items)]

OrderArgs(nc, np, ns, nk, no, mi, sd, ed, mq) ==
  [num_customers |-> nc, num_products |-> np, num_shipping_methods |-> ns,
   num_couriers |-> nk, num_orders |-> no, max_order_items |-> mi,
   start_datetime |-> sd, end_datetime |-> ed, max_quantity |-> mq]

\* -------------------------------------------------------------------- main
main_num_customers == 10
main_num_orders == 100
main_max_order_items == 3
main_max_quantity == 2

Unbound == "unbound"
NoCall == "no call"

MainLocals ==
  [num_customers |-> Unbound, num_orders |-> Unbound,
   max_order_items |-> Unbound, max_quantity |-> Unbound,
   num_shipping_methods |-> Unbound, num_couriers |-> Unbound,
   num_products |-> Unbound]

\* The output directory after lines 199-202: removed with all it holds when
\* it exists, then created empty.
RecreatedOutputPath_keeps_files(exists, fs) == IF exists THEN fs ELSE EmptyDir

RecreatedOutputPath(exists, fs) == EmptyDir

\* The arguments main passes, positionally, with the defaults for the rest.
MainOrderArgs_couriers_from_products(l) ==
  OrderArgs(l.max_quantity, l.num_couriers, l.num_shipping_methods,
            l.num_products, l.num_orders, l.max_order_items,
            default_start_datetime, default_end_datetime,
            default_max_quantity)

MainOrderArgs(l) ==
  OrderArgs(l.max_quantity, l.num_products, l.num_shipping_methods,
            l.num_couriers, l.num_orders, l.max_order_items,
            default_start_datetime, default_end_datetime,
            default_max_quantity)

StaleFile == [field_names |-> {}, rows |-> <<>>]
StaleNames == {"order.csv", "notes.txt"}
PreStates ==
  {[exists |-> FALSE, fs |-> EmptyDir]} \cup
  {[exists |-> TRUE, fs |-> [f \in S |-> StaleFile]] : S \in SUBSET StaleNames}

Init ==
  /\ pc = "main"
  /\ seed \in Seeds
  /\ pos = 0
  /\ pre \in PreStates
  /\ dir_exists = pre.exists
  /\ files = pre.fs
  /\ m = MainLocals
  /\ call = NoCall

MainRecreate ==
  /\ pc = "main"
  /\ dir_exists' = TRUE
  /\ files' = RecreatedOutputPath(dir_exists, files)
  /\ m' = [m EXCEPT !.num_customers = main_num_customers,
                    !.num_orders = main_num_orders,
                    !.max_order_items = main_max_order_items,
                    !.max_quantity = main_max_quantity]
  /\ pc' = "shipping_methods"
  /\ UNCHANGED <<seed, pos, pre, call>>

MainShippingMethods ==
  /\ pc = "shipping_methods"
  /\ LET r == generate_shipping_methods(files)
     IN /\ files' = r.fs
        /\ m' = [m EXCEPT !.num_shipping_methods = r.result]
  /\ pc' = "couriers"
  /\ UNCHANGED <<seed, pos, dir_exists, pre, call>>

MainCouriers ==
  /\ pc = "couriers"
  /\ LET r == generate_couriers(files)
     IN /\ files' = r.fs
        /\ m' = [m EXCEPT !.num_couriers = r.result]
  /\ pc' = "customers"
  /\ UNCHANGED <<seed, pos, dir_exists, pre, call>>

MainCustomers ==
  /\ pc = "customers"
  /\ LET r == generate_customers(files, pos, m.num_customers)
     IN /\ files' = r.fs
        /\ pos' = r.pos
        /\ m' = [m EXCEPT !.num_customers = r.result]
  /\ pc' = "products"
  /\ UNCHANGED <<seed, dir_exists, pre, call>>

MainProducts ==
  /\ pc = "products"
  /\ LET r == generate_products(files)
     IN /\ files' = r.fs
        /\ m' = [m EXCEPT !.num_products = r.result]
  /\ pc' = "orders"
  /\ UNCHANGED <<seed, pos, dir_exists, pre, call>>

MainOrders ==
  /\ pc = "orders"
  /\ call' = MainOrderArgs(m)
  /\ LET r == generate_orders(files, pos, MainOrderArgs(m))
     IN /\ files' = r.fs
        /\ pos' = r.pos
        /\ pc' = IF r.raised THEN "raised" ELSE "done"
  /\ UNCHANGED <<seed, dir_exists, pre, m>>

Next ==
  \/ MainRecreate
  \/ MainShippingMethods
  \/ MainCouriers
  \/ MainCustomers
  \/ MainProducts
  \/ MainOrders

Spec == Init /\ [][Next]_vars

\* ------------------------------------------- generate_orders called directly
CountValues == (0 - 1)..MaxCount

ArgFields ==
  {"num_customers", "num_products", "num_shipping_methods", "num_couriers",
   "num_orders", "max_order_items", "max_quantity"}

\* Every call in which at most two of the seven counts differ from 1.
OrderArgsSet ==
  {[f \in ArgFields \cup {"start_datetime", "end_datetime"} |->
      IF f = "start_datetime" THEN default_start_datetime
      ELSE IF f = "end_datetime" THEN default_end_datetime
      ELSE IF f = x THEN v ELSE IF f = y THEN w ELSE 1] :
     <<x, v, y, w>> \in ArgFields \X CountValues \X ArgFields \X CountValues}

InitOrders ==
  /\ pc = "call"
  /\ seed \in Seeds
  /\ pos = 0
  /\ pre = [exists |-> TRUE, fs |-> EmptyDir]
  /\ dir_exists = TRUE
  /\ files = EmptyDir
  /\ m = MainLocals
  /\ call \in OrderArgsSet

CallGenerateOrders ==
  /\ pc = "call"
  /\ LET r == generate_orders(files, pos, call)
     IN /\ files' = r.fs
        /\ pos' = r.pos
        /\ pc' = IF r.raised THEN "raised" ELSE "done"
  /\ UNCHANGED <<seed, dir_exists, pre, m, call>>

NextOrders == CallGenerateOrders

SpecOrders == InitOrders /\ [][NextOrders]_vars

\* ------------------------------------------------------------- properties
Rows(file_name) ==
  IF file_name \in DOMAIN files THEN files[file_name].rows ELSE <<>>

Range(rows) == {rows[k] : k \in 1..Len(rows)}

EightFiles ==
  {"shipping_method.csv", "courier.csv", "customer.csv", "category.csv",
   "sub_category.csv", "product.csv", "order.csv", "order_item.csv"}

CountFields ==
  {"num_customers", "num_products", "num_shipping_methods", "num_couriers",
   "num_orders"}

AllArgsPositive == \A f \in ArgFields : call[f] >= 1

\* C1: after a complete run of main every foreign key of order.csv and
\* order_item.csv points at a row written in the same run: customer_id,
\* shipping_method_id, courier_id and product_id lie in 1..(rows of the
\* referenced table) and order_id is the id of a written order row.
C1_ForeignKeysResolve ==
  pc = "done" =>
    /\ \A o \in Range(Rows("order.csv")) :
         /\ o.customer_id \in 1..Len(Rows("customer.csv"))
         /\ o.shipping_method_id \in 1..Len(Rows("shipping_method.csv"))
         /\ o.courier_id \in 1..Len(Rows("courier.csv"))
    /\ \A it \in Range(Rows("order_item.csv")) :
         /\ it.order_id \in {o.id : o \in Range(Rows("order.csv"))}
         /\ it.product_id \in 1..Len(Rows("product.csv"))

C1_Witness ==
  /\ pc = "done"
  /\ Len(Rows("order.csv")) = main_num_orders
  /\ \E it \in Range(Rows("order_item.csv")) :
       it.product_id = Len(Rows("product.csv"))
  /\ \E o \in Range(Rows("order.csv")) :
       o.courier_id = Len(Rows("courier.csv"))

\* C2: main calls generate_orders with num_customers equal to the number of
\* customer rows written and num_products, num_shipping_methods and
\* num_couriers equal to the values the other generators returned.
C2_OrderArgsAreTheCounts ==
  pc = "done" =>
    /\ call.num_customers = Len(Rows("customer.csv"))
    /\ call.num_products = m.num_products
    /\ call.num_shipping_methods = m.num_shipping_methods
    /\ call.num_couriers = m.num_couriers

\* C3: after a complete run of main every order-item quantity is at least 1
\* and at most the max_quantity that main sets.
C3_QuantityWithinMainMaximum ==
  pc = "done" =>
    \A it \in Range(Rows("order_item.csv")) :
      it.quantity \in 1..m.max_quantity

\* C4: a call of generate_orders with a count (num_customers, num_products,
\* num_shipping_methods, num_couriers or num_orders) at most 0 ends in an
\* error raised before anything is sampled and before any file is written.
C4_NonPositiveCountRejected ==
  (pc # "call" /\ \E f \in CountFields : call[f] <= 0) =>
    /\ pc = "raised"
    /\ pos = 0
    /\ files = EmptyDir

\* C5: in every table written the ids of the N rows are 1, 2, ..., N in row
\* order; the order-item counter runs on across orders.
C5_IdsAreOneToN ==
  \A f \in DOMAIN files :
    \A k \in 1..Len(files[f].rows) : files[f].rows[k].id = k

C5_Witness ==
  /\ pc = "done"
  /\ DOMAIN files = EightFiles
  /\ \E it \in Range(Rows("order_item.csv")) : it.order_id = 2 /\ it.id = 4
  /\ \E it \in Range(Rows("order_item.csv")) : it.order_id = 3 /\ it.id = 5

\* C6: main empties the output directory before any generator writes, and
\* after a complete run the directory holds exactly the eight tables, each
\* with at least one row, whatever it held before.
C6_ExactlyTheEightFiles ==
  /\ pc = "shipping_methods" => (dir_exists /\ files = EmptyDir)
  /\ pc = "done" =>
       /\ dir_exists
       /\ DOMAIN files = EightFiles
       /\ \A f \in EightFiles : Len(files[f].rows) >= 1

C6_Witness ==
  /\ pc = "done"
  /\ pre.exists
  /\ DOMAIN pre.fs = StaleNames
  /\ DOMAIN files = EightFiles

\* C7: generate_products writes 3 categories, 6 sub-categories and 12
\* products and returns 12; each sub-category row carries the id of the
\* category it is nested under and each product row the id of its
\* sub-category, so every parent id is referenced exactly twice; the product
\* "Table and chair set" has id 1 and sub_category_id 1.
C7_CatalogTables ==
  pc \in {"orders", "done"} =>
    LET cats == Rows("category.csv")
        subs == Rows("sub_category.csv")
        prods == Rows("product.csv")
        h == get_product_hierarchy
    IN /\ Len(cats) = 3 /\ Len(subs) = 6 /\ Len(prods) = 12
       /\ m.num_products = 12
       /\ \A i \in 1..Len(h) : \A j \in 1..Len(h[i].sub_category) :
            \E c \in Range(cats) : \E s \in Range(subs) :
              /\ c.name = h[i].name
              /\ s.name = h[i].sub_category[j].name
              /\ s.category_id = c.id
              /\ \A k \in 1..Len(h[i].sub_category[j].product_set) :
                   \E q \in Range(prods) :
                     /\ q.name = h[i].sub_category[j].product_set[k].name
                     /\ q.sub_category_id = s.id
       /\ \A c \in Range(cats) :
            Cardinality({k \in 1..Len(subs) : subs[k].category_id = c.id}) = 2
       /\ \A s \in Range(subs) :
            Cardinality({k \in 1..Len(prods) :
                           prods[k].sub_category_id = s.id}) = 2
       /\ \E q \in Range(prods) :
            q.name = "Table and chair set" /\ q.id = 1 /\ q.sub_category_id = 1

C7_Witness ==
  /\ pc = "orders"
  /\ {"category.csv", "sub_category.csv", "product.csv"} \subseteq DOMAIN files
  /\ \E q \in Range(Rows("product.csv")) :
       q.name = "Blouse" /\ q.id = 12 /\ q.sub_category_id = 6

\* C8: a call of generate_orders with every count and maximum at least 1
\* returns, and every order row has customer_id, shipping_method_id and
\* courier_id in 1..(the respective count), every order-item row has
\* product_id in 1..num_products, quantity in 1..max_quantity and order_id
\* in 1..num_orders.
C8_SampledValuesInRange ==
  (pc # "call" /\ AllArgsPositive) =>
    /\ pc = "done"
    /\ \A o \in Range(Rows("order.csv")) :
         /\ o.customer_id \in 1..call.num_customers
         /\ o.shipping_method_id \in 1..call.num_shipping_methods
         /\ o.courier_id \in 1..call.num_couriers
    /\ \A it \in Range(Rows("order_item.csv")) :
         /\ it.product_id \in 1..call.num_products
         /\ it.quantity \in 1..call.max_quantity
         /\ it.order_id \in 1..call.num_orders

C8_Witness ==
  /\ pc = "done"
  /\ AllArgsPositive
  /\ call.num_customers = MaxCount
  /\ call.max_quantity = MaxCount
  /\ \E o \in Range(Rows("order.csv")) : o.customer_id = MaxCount
  /\ \E it \in Range(Rows("order_item.csv")) : it.quantity = MaxCount

\* The shape of the two order tables that C9 describes.
OrderItemsShape ==
  LET orders == Rows("order.csv")
      items == Rows("order_item.csv")
  IN /\ Len(orders) = call.num_orders
     /\ \A o \in 1..call.num_orders :
          Cardinality({k \in 1..Len(items) : items[k].order_id = o})
            \in 1..call.max_order_items
     /\ \A k \in 1..Len(items) : items[k].order_id \in 1..call.num_orders
     /\ \A k \in 1..(Len(items) - 1) :
          items[k].order_id <= items[k + 1].order_id
     /\ (call.num_orders = 1 /\ call.max_order_items = 1) =>
          /\ Len(orders) = 1
          /\ Len(items) = 1
          /\ items[1].order_id = 1

\* C9 as stated: for every call with num_orders >= 1 and max_order_items >= 1
\* exactly num_orders order rows are written, every order id has between 1
\* and max_order_items order items, the items of an order are contiguous
\* with order_id non-decreasing, and one order with at most one item gives
\* exactly one item of order 1.
C9_AsStated ==
  (pc # "call" /\ call.num_orders >= 1 /\ call.max_order_items >= 1) =>
    OrderItemsShape

\* C9 amended: the same, for every call in which all of num_customers,
\* num_products, num_shipping_methods, num_couriers, num_orders,
\* max_order_items and max_quantity are at least 1.
C9_EveryOrderHasItems ==
  (pc # "call" /\ AllArgsPositive) => (pc = "done" /\ OrderItemsShape)

C9_Witness ==
  /\ pc = "done"
  /\ AllArgsPositive
  /\ call.num_orders = MaxCount
  /\ call.max_order_items = MaxCount
  /\ Len(Rows("order_item.csv")) > call.num_orders
  /\ Len(Rows("order_item.csv")) < call.num_orders * call.max_order_items

\* C10: for every order row shipped_timestamp is placed_timestamp plus a
\* whole number d of days, 1 <= d <= 4, at the same time of day, hence
\* strictly later.
C10_ShippedOneToFourDaysLater ==
  \A o \in Range(Rows("order.csv")) :
    /\ \E d \in 1..4 :
         o.shipped_timestamp = o.placed_timestamp + d * UnitsPerDay
    /\ o.shipped_timestamp % UnitsPerDay = o.placed_timestamp % UnitsPerDay
    /\ o.shipped_timestamp > o.placed_timestamp

C10_Witness ==
  /\ pc = "done"
  /\ \E o \in Range(Rows("order.csv")) :
       /\ o.shipped_timestamp = o.placed_timestamp + 4 * UnitsPerDay
       /\ o.placed_timestamp % UnitsPerDay # 0
       /\ o.placed_timestamp > UnitsPerDay
  /\ \E o \in Range(Rows("order.csv")) :
       o.shipped_timestamp < o.placed_timestamp + 4 * UnitsPerDay

====
